---------------------------- MODULE Spec2Model ----------------------------
(* A model of the rootio binary codec and record-resolution layer:         *)
(*   - WBuffer, the write-only ROOT buffer (src/rootio/wbuffer.go);        *)
(*   - Key, the record header, its decoding and the resolution of its      *)
(*     object (src/unnamed/part_000, package rootio).                      *)
(* The read buffer (RBuffer), the class registry (Factory), the file and   *)
(* the zlib stream are not part of the sources at hand; they are modelled  *)
(* from the specification and marked so where they are defined.            *)
EXTENDS Integers, Sequences, FiniteSets, TLC

VARIABLES
    wbuf,    \* the WBuffer: its sink (an io.Writer) and its sticky error slot
    nops,    \* number of operations issued on wbuf
    last,    \* the last operation issued on wbuf and the state it found
    wlog,    \* the operations issued on wbuf, in order, each with its value
    rb,      \* the RBuffer a stream of record headers is decoded from
    hk,      \* the Key the last Key.UnmarshalROOT filled
    hret,    \* what that call returned ("none" before the first call)
    hpre,    \* the RBuffer as that call found it
    keys,    \* the Keys of the directory, in the order they were decoded
    stats,   \* loads, lookups, constructions, self-decodes and scans so far
    res,     \* the last call on a Key of the directory and what it returned
    ncalls,  \* number of calls made on the Keys of the directory
    ndecodes, \* for each Key, how often an instance made for it decoded itself
    panicked, \* a call has panicked: the process is gone
    thr,     \* the threads inside Object() on one Key: where each one is
    cell     \* the two words of that Key's obj field, as memory holds them

wvars == <<wbuf, nops, last, wlog>>

hvars == <<rb, hk, hret, hpre>>

ovars == <<keys, stats, res, ncalls, ndecodes, panicked, thr, cell>>

vars == <<wbuf, nops, last, wlog, rb, hk, hret, hpre, keys, stats, res, ncalls, ndecodes,
          panicked, thr, cell>>

-----------------------------------------------------------------------------
(* Bounds of the model.                                                    *)

\* operations issued on one WBuffer
MaxOps == 2
\* the sink may fail at its 1st .. MaxFailAt-th Write call (or never)
MaxFailAt == 4
\* calls made on the Keys of one directory
MaxCalls == 3

-----------------------------------------------------------------------------
(* Values.  A byte is 0..255.  Integers of 8, 16 bits and int32 are TLA+   *)
(* integers.  A 32- or 64-bit pattern that does not fit a signed 32-bit    *)
(* integer is a sequence of 16-bit limbs, least significant limb first:    *)
(* <<l0, l1>> stands for l0 + 2^16 * l1.                                   *)

NoErr == "nil"

Pow16 ==
    2^16

Pow8 ==
    2^8

\* uint32(v) of an int (int32, or a length): its two's-complement pattern
ToU32(v) ==
    <<v % Pow16, (v \div Pow16) % Pow16>>

\* the byte sequence of a Go string of n bytes (a fixed, non-trivial content)
StrOf(n) ==
    [i \in 1..n |-> (i * 37 + 28) % Pow8]

-----------------------------------------------------------------------------
(* The sink: the io.Writer a WBuffer writes to.  It accepts every Write    *)
(* in full until the call its plan names; that call fails, either writing  *)
(* nothing or writing the first half of the bytes.                         *)

SinkPlans ==
    { [failAt |-> 0, err |-> NoErr] }
       \cup { [failAt |-> n, err |-> e] :
                  n \in 1..MaxFailAt, e \in {"ErrShortWrite", "ErrClosedPipe"} }

\* w.w.Write(p): the sink after the call, and the error it returns
SinkWrite(sink, p) ==
    LET c == sink.calls + 1
    IN  IF sink.plan.failAt = c
        THEN LET n == IF sink.plan.err = "ErrShortWrite" THEN Len(p) \div 2 ELSE 0
             IN  [sink |-> [sink EXCEPT !.calls = c, !.data = @ \o SubSeq(p, 1, n)],
                  err  |-> sink.plan.err]
        ELSE [sink |-> [sink EXCEPT !.calls = c, !.data = @ \o p],
              err  |-> NoErr]

\* `_, w.err = w.w.Write(buf[:])`: the tail of every fixed-width write
Emit(b, p) ==
    LET r == SinkWrite(b.sink, p)
    IN  [sink |-> r.sink, err |-> r.err]

NewWBuffer(data, plan) ==
    [sink |-> [data |-> data, calls |-> 0, plan |-> plan], err |-> NoErr]

-----------------------------------------------------------------------------
(* WBuffer operations.                                                     *)

Err(b) ==
    b.err

write(b, p) ==
    IF b.err # NoErr THEN b ELSE Emit(b, p)

\* least significant byte first
PutUint16LittleEndian(v) ==
    <<v % Pow8, v \div Pow8>>

\* binary.BigEndian.PutUint16
PutUint16(v) ==
    <<v \div Pow8, v % Pow8>>

\* least significant byte first
PutUint32LittleEndian(v) ==
    <<v[1] % Pow8, v[1] \div Pow8, v[2] % Pow8, v[2] \div Pow8>>

\* binary.BigEndian.PutUint32 on a pattern of two limbs
PutUint32(v) ==
    PutUint16(v[2]) \o PutUint16(v[1])

\* binary.BigEndian.PutUint64 on a pattern of four limbs
PutUint64(v) ==
    PutUint16(v[4]) \o PutUint16(v[3]) \o PutUint16(v[2]) \o PutUint16(v[1])

WriteI8(b, v) ==
    IF b.err # NoErr THEN b ELSE Emit(b, <<v % Pow8>>)

WriteI16(b, v) ==
    IF b.err # NoErr THEN b ELSE Emit(b, PutUint16(v % Pow16))

WriteI32(b, v) ==
    IF b.err # NoErr THEN b ELSE Emit(b, PutUint32(ToU32(v)))

WriteI64(b, v) ==
    IF b.err # NoErr THEN b ELSE Emit(b, PutUint64(v))

\* WriteU8 without its test of the error slot
WriteU8NoGuard(b, v) ==
    Emit(b, <<v>>)

WriteU8(b, v) ==
    IF b.err # NoErr THEN b ELSE Emit(b, <<v>>)

WriteU16(b, v) ==
    IF b.err # NoErr THEN b ELSE Emit(b, PutUint16(v))

WriteU32(b, v) ==
    IF b.err # NoErr THEN b ELSE Emit(b, PutUint32(v))

WriteU64(b, v) ==
    IF b.err # NoErr THEN b ELSE Emit(b, PutUint64(v))

\* v is math.Float32bits of the value written
WriteF32(b, v) ==
    IF b.err # NoErr THEN b ELSE Emit(b, PutUint32(v))

\* v is math.Float64bits of the value written
WriteF64(b, v) ==
    IF b.err # NoErr THEN b ELSE Emit(b, PutUint64(v))

\* the long form chosen one byte too late
WriteStringLate(b, s) ==
    IF b.err # NoErr THEN b
    ELSE LET b1 == IF Len(s) > 255
                   THEN WriteU32(WriteU8(b, 255), ToU32(Len(s)))
                   ELSE WriteU8(b, Len(s) % Pow8)
             b2 == IF s = <<>> THEN WriteU8(b1, 0) ELSE b1
         IN  write(b2, s)

\* the empty string written as its length byte alone
WriteStringNoPad(b, s) ==
    IF b.err # NoErr THEN b
    ELSE LET b1 == IF Len(s) > 254
                   THEN WriteU32(WriteU8(b, 255), ToU32(Len(s)))
                   ELSE WriteU8(b, Len(s) % Pow8)
         IN  write(b1, s)

WriteString(b, s) ==
    IF b.err # NoErr THEN b
    ELSE LET b1 == IF Len(s) > 254
                   THEN WriteU32(WriteU8(b, 255), ToU32(Len(s)))
                   ELSE WriteU8(b, Len(s) % Pow8)
             b2 == IF s = <<>> THEN WriteU8(b1, 0) ELSE b1
         IN  write(b2, s)

-----------------------------------------------------------------------------
(* The read buffer (RBuffer), modelled from the specification (4.1): one   *)
(* read primitive per fixed-width type and a string primitive, big-endian, *)
(* with a sticky error: once a read fails the error is recorded and every  *)
(* later read returns the zero value without touching the source.          *)
(* calls logs the primitives invoked; hi is the highest byte index any     *)
(* read tried to reach.                                                    *)

Max(a, b) ==
    IF a >= b THEN a ELSE b

Zeros(n) ==
    [i \in 1..n |-> 0]

NewRBuffer(data) ==
    [data |-> data, pos |-> 0, err |-> NoErr, calls |-> <<>>, hi |-> 0]

\* read n raw bytes at the cursor
Fetch(r, n) ==
    IF r.err # NoErr THEN [r |-> r, v |-> Zeros(n)]
    ELSE IF r.pos + n > Len(r.data)
         THEN [r |-> [r EXCEPT !.err = "ErrUnexpectedEOF", !.hi = Max(@, r.pos + n)],
               v |-> Zeros(n)]
         ELSE [r |-> [r EXCEPT !.pos = @ + n, !.hi = Max(@, r.pos + n)],
               v |-> SubSeq(r.data, r.pos + 1, r.pos + n)]

Logged(f, kind) ==
    [r |-> [f.r EXCEPT !.calls = Append(@, kind)], v |-> f.v]

Uint16(p, i) ==
    p[i] * Pow8 + p[i + 1]

Signed8(u) ==
    IF u >= 2^7 THEN u - Pow8 ELSE u

Signed16(u) ==
    IF u >= 2^15 THEN u - Pow16 ELSE u

ReadU8(r) ==
    LET f == Fetch(r, 1) IN Logged([r |-> f.r, v |-> f.v[1]], "U8")

ReadI8(r) ==
    LET f == Fetch(r, 1) IN Logged([r |-> f.r, v |-> Signed8(f.v[1])], "I8")

ReadU16(r) ==
    LET f == Fetch(r, 2) IN Logged([r |-> f.r, v |-> Uint16(f.v, 1)], "U16")

ReadI16(r) ==
    LET f == Fetch(r, 2) IN Logged([r |-> f.r, v |-> Signed16(Uint16(f.v, 1))], "I16")

ReadU32(r) ==
    LET f == Fetch(r, 4)
    IN  Logged([r |-> f.r, v |-> <<Uint16(f.v, 3), Uint16(f.v, 1)>>], "U32")

ReadI32(r) ==
    LET f == Fetch(r, 4)
    IN  Logged([r |-> f.r, v |-> Signed16(Uint16(f.v, 1)) * Pow16 + Uint16(f.v, 3)], "I32")

ReadU64(r) ==
    LET f == Fetch(r, 8)
    IN  Logged([r |-> f.r,
                v |-> <<Uint16(f.v, 7), Uint16(f.v, 5), Uint16(f.v, 3), Uint16(f.v, 1)>>],
               "U64")

ReadI64(r) ==
    LET f == Fetch(r, 8)
    IN  Logged([r |-> f.r,
                v |-> <<Uint16(f.v, 7), Uint16(f.v, 5), Uint16(f.v, 3), Uint16(f.v, 1)>>],
               "I64")

ReadF32(r) ==
    LET f == Fetch(r, 4)
    IN  Logged([r |-> f.r, v |-> <<Uint16(f.v, 3), Uint16(f.v, 1)>>], "F32")

ReadF64(r) ==
    LET f == Fetch(r, 8)
    IN  Logged([r |-> f.r,
                v |-> <<Uint16(f.v, 7), Uint16(f.v, 5), Uint16(f.v, 3), Uint16(f.v, 1)>>],
               "F64")

\* the length a 4-byte length field f announces; one that no source can
\* hold fails the read
LongLen(f) ==
    IF Uint16(f.v, 1) >= 2^15
    THEN [r |-> IF f.r.err = NoErr
                THEN [f.r EXCEPT !.err = "ErrUnexpectedEOF", !.hi = Len(f.r.data) + 1]
                ELSE f.r,
          v |-> 0]
    ELSE [r |-> f.r, v |-> Uint16(f.v, 1) * Pow16 + Uint16(f.v, 3)]

\* the length of a string whose first byte is f: 255 announces a 4-byte length
StringLen(f) ==
    IF f.v[1] = 255 THEN LongLen(Fetch(f.r, 4)) ELSE [r |-> f.r, v |-> f.v[1]]

\* the payload of a string of the length n.v; a failed read gives the empty
\* string (a length past the end of the source counts as a read of the byte
\* after the last)
StringData(n) ==
    IF n.r.err # NoErr THEN [r |-> n.r, v |-> <<>>]
    ELSE IF n.v > Len(n.r.data) - n.r.pos
         THEN [r |-> [n.r EXCEPT !.err = "ErrUnexpectedEOF",
                                 !.hi = Max(@, Len(n.r.data) + 1)],
               v |-> <<>>]
         ELSE Fetch(n.r, n.v)

\* one length byte; 255 announces a 4-byte length; then the payload
ReadString(r) ==
    Logged(StringData(StringLen(Fetch(r, 1))), "Str")

-----------------------------------------------------------------------------
(* The values written: the extremes of each type and a pattern whose bytes *)
(* all differ; strings on both sides of the one-byte length's limit.       *)

I8Vals == {-128, -1, 127}

U8Vals == {0, 255}

I16Vals == {-32768, -2, 258}

U16Vals == {65535, 258}

I32Vals == {-2147483647 - 1, -1, 16909060}

U32Vals == {<<65535, 65535>>, <<772, 258>>}

I64Vals == {<<0, 0, 0, 32768>>, <<65535, 65535, 65535, 65535>>, <<1800, 1286, 772, 258>>}

U64Vals == {<<65535, 65535, 65535, 65535>>, <<1800, 1286, 772, 258>>}

\* math.Float32bits of 1.0 and of -0.0
F32Vals == {<<0, 16256>>, <<0, 32768>>}

\* math.Float64bits of 1.0 and of a NaN
F64Vals == {<<0, 0, 0, 16368>>, <<1, 0, 0, 32760>>}

StrVals ==
    {StrOf(n) : n \in {0, 1, 2, 254, 255, 256}} \cup {<<0>>}

\* the bytes a buffer made by NewWBuffer(data, ...) already holds
InitData == {<<>>, <<170, 187>>}

-----------------------------------------------------------------------------
(* The WBuffer as a state machine: a buffer is made, then operations are   *)
(* issued on it one after another.                                         *)

InitW ==
    /\ \E d \in InitData, pl \in SinkPlans : wbuf = NewWBuffer(d, pl)
    /\ nops = 0
    /\ last = [op |-> "none", val |-> 0, pos |-> 0, errBefore |-> NoErr]
    /\ wlog = <<>>

\* operation op(val) is issued on wbuf and leaves it as b
Issue(op, val, b) ==
    /\ nops < MaxOps
    /\ wbuf' = b
    /\ nops' = nops + 1
    /\ last' = [op |-> op, val |-> val, pos |-> Len(wbuf.sink.data), errBefore |-> Err(wbuf)]
    /\ wlog' = Append(wlog, [op |-> op, val |-> val, pos |-> Len(wbuf.sink.data)])
    /\ UNCHANGED <<hvars, ovars>>

CallWriteI8 ==
    \E v \in I8Vals : Issue("I8", v, WriteI8(wbuf, v))

CallWriteI16 ==
    \E v \in I16Vals : Issue("I16", v, WriteI16(wbuf, v))

CallWriteI32 ==
    \E v \in I32Vals : Issue("I32", v, WriteI32(wbuf, v))

CallWriteI64 ==
    \E v \in I64Vals : Issue("I64", v, WriteI64(wbuf, v))

CallWriteU8 ==
    \E v \in U8Vals : Issue("U8", v, WriteU8(wbuf, v))

CallWriteU16 ==
    \E v \in U16Vals : Issue("U16", v, WriteU16(wbuf, v))

CallWriteU32 ==
    \E v \in U32Vals : Issue("U32", v, WriteU32(wbuf, v))

CallWriteU64 ==
    \E v \in U64Vals : Issue("U64", v, WriteU64(wbuf, v))

CallWriteF32 ==
    \E v \in F32Vals : Issue("F32", v, WriteF32(wbuf, v))

CallWriteF64 ==
    \E v \in F64Vals : Issue("F64", v, WriteF64(wbuf, v))

CallWriteString ==
    \E s \in StrVals : Issue("Str", s, WriteString(wbuf, s))

NextW ==
    \/ CallWriteI8
    \/ CallWriteI16
    \/ CallWriteI32
    \/ CallWriteI64
    \/ CallWriteU8
    \/ CallWriteU16
    \/ CallWriteU32
    \/ CallWriteU64
    \/ CallWriteF32
    \/ CallWriteF64
    \/ CallWriteString

-----------------------------------------------------------------------------
(* Key: the record header.  A string is the sequence of its bytes; a       *)
(* 64-bit offset is four 16-bit limbs, least significant first.            *)

\* "[GAP]"
GAP ==
    <<91, 71, 65, 80, 93>>

\* "TObjString"
TObjString ==
    <<84, 79, 98, 106, 83, 116, 114, 105, 110, 103>>

\* int64(v) of an int32: sign extension
WidenI32(v) ==
    LET s == IF v < 0 THEN Pow16 - 1 ELSE 0
    IN  <<v % Pow16, (v \div Pow16) % Pow16, s, s>>

\* an instance slot that holds nothing
NilObj ==
    [id |-> 0, class |-> <<>>, val |-> 0, file |-> FALSE, scanned |-> FALSE]

\* &Key{}
ZeroKey ==
    [bytes |-> 0, version |-> 0, objlen |-> 0, datetime |-> <<0, 0>>, keylen |-> 0,
     cycle |-> 0, seekkey |-> <<0, 0, 0, 0>>, seekpdir |-> <<0, 0, 0, 0>>,
     class |-> <<>>, name |-> <<>>, title |-> <<>>, obj |-> NilObj]

\* the test of the total length that marks a gap left out
GapNotDetected(n) ==
    FALSE

\* `k.bytes < 0`
IsGap(n) ==
    n < 0

\* the 8-byte offsets chosen from version 1000 on
WideOffsetsFrom1000(version) ==
    version >= 1000

\* the 8-byte branch never taken
NarrowOffsetsOnly(version) ==
    FALSE

\* `k.version > 1000`
WideOffsets(version) ==
    version > 1000

\* `int64(r.ReadI32())`
ReadI32AsI64(r) ==
    LET f == ReadI32(r) IN [r |-> f.r, v |-> WidenI32(f.v)]

\* the assignment `k.field = f.v` of a value read, f.r being the reader left
Assigned(s, field, f) ==
    [k |-> [s.k EXCEPT ![field] = f.v], r |-> f.r]

\* `k.field = r.ReadI16()`, on the key s.k and the reader s.r
SetI16(s, field) ==
    Assigned(s, field, ReadI16(s.r))

\* `k.field = r.ReadI32()`
SetI32(s, field) ==
    Assigned(s, field, ReadI32(s.r))

\* `k.datetime = datime2time(r.ReadU32())`: the key keeps the 32 bits read,
\* datime2time being outside the sources at hand
SetU32(s, field) ==
    Assigned(s, field, ReadU32(s.r))

\* `k.field = r.ReadI64()`
SetI64(s, field) ==
    Assigned(s, field, ReadI64(s.r))

\* `k.field = int64(r.ReadI32())`
SetI32AsI64(s, field) ==
    Assigned(s, field, ReadI32AsI64(s.r))

\* `k.field = r.ReadString()`
SetString(s, field) ==
    Assigned(s, field, ReadString(s.r))

\* `return r.Err()`
Returned(s) ==
    [k |-> s.k, r |-> s.r, ret |-> s.r.err]

\* Key.UnmarshalROOT: the key and the reader it leaves, and what it returns
UnmarshalROOT(k, r) ==
    IF r.err # NoErr THEN [k |-> k, r |-> r, ret |-> r.err]
    ELSE
    LET s1 == SetI32([k |-> k, r |-> r], "bytes")
    IN  IF IsGap(s1.k.bytes)
        THEN [k |-> [s1.k EXCEPT !.class = GAP], r |-> s1.r, ret |-> NoErr]
        ELSE
        LET s2 == SetI16(s1, "version")
            s3 == SetI32(s2, "objlen")
            s4 == SetU32(s3, "datetime")
            s5 == SetI16(s4, "keylen")
            s6 == SetI16(s5, "cycle")
            s8 == IF WideOffsets(s6.k.version)
                  THEN SetI64(SetI64(s6, "seekkey"), "seekpdir")
                  ELSE SetI32AsI64(SetI32AsI64(s6, "seekkey"), "seekpdir")
            s9 == SetString(s8, "class")
            s10 == SetString(s9, "name")
            s11 == SetString(s10, "title")
        IN  Returned(s11)

-----------------------------------------------------------------------------
(* Headers to decode, laid out as the record header wire layout (6): the   *)
(* integers as the WBuffer writes them, each string as its length byte and *)
(* its bytes, the offsets 8 bytes wide when the version is above 1000.     *)

NeverFails ==
    [failAt |-> 0, err |-> NoErr]

WireString(s) ==
    <<Len(s)>> \o s

EncodeKey(h) ==
    LET b1 == WriteI32(NewWBuffer(<<>>, NeverFails), h.bytes)
        b2 == WriteI16(b1, h.version)
        b3 == WriteI32(b2, h.objlen)
        b4 == WriteU32(b3, h.datetime)
        b5 == WriteI16(b4, h.keylen)
        b6 == WriteI16(b5, h.cycle)
        b8 == IF h.version > 1000
              THEN WriteI64(WriteI64(b6, h.seekkey), h.seekpdir)
              ELSE WriteU32(WriteU32(b6, <<h.seekkey[1], h.seekkey[2]>>),
                            <<h.seekpdir[1], h.seekpdir[2]>>)
    IN  b8.sink.data \o WireString(h.class) \o WireString(h.name) \o WireString(h.title)

\* a gap: a negative total length, and whatever the freed space holds
GapHeaders ==
    {PutUint32(ToU32(n)) \o g : n \in {-1, -2147483647 - 1, -70},
                                g \in {<<>>, <<255, 255, 255>>, <<0, 4, 0, 0, 0, 9>>}}

HeaderFields ==
    [bytes : {0, 70}, version : {-3, 4, 500, 1000, 1001, 1004, 1500}, objlen : {42},
     datetime : {<<4660, 22136>>}, keylen : {28}, cycle : {1},
     seekkey : {WidenI32(100), WidenI32(-2), <<4464, 1, 1, 0>>},
     seekpdir : {WidenI32(64)},
     class : {TObjString}, name : {<<110>>}, title : {<<>>, <<116, 105>>}]

\* what follows a header in the stream: nothing, a gap, another header
Trailers ==
    {<<>>, <<255, 255, 255, 255>>,
     EncodeKey([bytes |-> 9, version |-> 1004, objlen |-> 1, datetime |-> <<1, 2>>,
                keylen |-> 40, cycle |-> 2, seekkey |-> WidenI32(300),
                seekpdir |-> WidenI32(64), class |-> TObjString, name |-> <<107>>,
                title |-> <<>>])}

\* every stream of headers, whole or cut short
Streams ==
    LET whole == GapHeaders \cup {EncodeKey(h) \o t : h \in HeaderFields, t \in Trailers}
    IN  UNION {{SubSeq(d, 1, n) : n \in 0..Len(d)} : d \in whole}

-----------------------------------------------------------------------------
(* The file: records laid one after another, each a header of 4 bytes and  *)
(* its payload.  A compressed payload is a 9-byte sub-header and a stream. *)
(* The stream format stands in for zlib's: the two header bytes 120, 156,  *)
(* one byte n, and n bytes of data; the stream ends there.                 *)

HeaderFiller ==
    <<238, 238, 238, 238>>

\* "ZL", the method, and the two 3-byte sizes
SubHeader ==
    <<90, 76, 8, 7, 0, 0, 4, 0, 0>>

File ==
    HeaderFiller \o <<0, 0, 0, 16>>                                     \* at 0
       \o HeaderFiller \o SubHeader \o <<120, 156, 4, 0, 0, 0, 16>>     \* at 8
       \o HeaderFiller \o <<0, 0, 39, 15>>                              \* at 28
       \o HeaderFiller \o <<0, 7>>                                      \* at 36
       \o HeaderFiller \o SubHeader \o <<0, 0, 4, 0, 0, 0, 16>>         \* at 42
       \o HeaderFiller \o SubHeader \o <<120, 156, 2, 0, 16>>           \* at 62
       \o HeaderFiller \o <<0, 0>>                                      \* at 80

\* the limbs of a 64-bit offset as an integer (offsets of the model are small)
OffsetOf(v) ==
    IF v[4] >= 2^15 THEN (v[1] - Pow16) + (v[2] - (Pow16 - 1)) * Pow16
    ELSE v[1] + v[2] * Pow16

\* io.NewSectionReader(k.f, off, n): the bytes of the file it can read
Section(off, n) ==
    IF off < 0 \/ n <= 0 \/ off >= Len(File) THEN <<>>
    ELSE SubSeq(File, off + 1, IF off + n < Len(File) THEN off + n ELSE Len(File))

\* io.ReadFull(r, buf) for a buf of n bytes, on a source that yields the
\* bytes src and then ends with the error end
ReadFull(src, end, n) ==
    IF n = 0 THEN [data |-> <<>>, err |-> NoErr]
    ELSE IF Len(src) >= n THEN [data |-> SubSeq(src, 1, n), err |-> NoErr]
    ELSE IF Len(src) = 0 THEN [data |-> <<>>, err |-> end]
    ELSE [data |-> <<>>, err |-> IF end = "EOF" THEN "ErrUnexpectedEOF" ELSE end]

\* zlib.NewReader(r) and the stream it then yields
Inflate(sec) ==
    IF Len(sec) < 2 THEN [data |-> <<>>, open |-> "ErrUnexpectedEOF", end |-> "EOF"]
    ELSE IF <<sec[1], sec[2]>> # <<120, 156>>
         THEN [data |-> <<>>, open |-> "zlib: invalid header", end |-> "EOF"]
    ELSE IF Len(sec) < 3 THEN [data |-> <<>>, open |-> NoErr, end |-> "ErrUnexpectedEOF"]
    ELSE LET n == sec[3]
             have == IF Len(sec) - 3 < n THEN Len(sec) - 3 ELSE n
         IN  [data |-> SubSeq(sec, 4, 3 + have), open |-> NoErr,
              end |-> IF have < n THEN "ErrUnexpectedEOF" ELSE "EOF"]

-----------------------------------------------------------------------------
(* Key: loading the payload.                                               *)

\* the header length left out of the test
isCompressedIgnoringKeylen(k) ==
    k.objlen # k.bytes

\* Key.isCompressed()
isCompressed(k) ==
    k.objlen # k.bytes - k.keylen

\* load reading the uncompressed payload from the start of the record
loadFromRecordStart(k, buflen) ==
    LET n == IF buflen < k.objlen THEN k.objlen ELSE buflen
    IN  IF isCompressed(k)
        THEN LET start == OffsetOf(k.seekkey) + k.keylen + 9
                 count == k.bytes - k.keylen
                 z == Inflate(Section(start, count))
                 rd == ReadFull(z.data, z.end, n)
             IN  IF z.open # NoErr
                 THEN [data |-> <<>>, err |-> z.open, path |-> "zlib",
                       from |-> start, count |-> count]
                 ELSE [data |-> rd.data, err |-> rd.err, path |-> "zlib",
                       from |-> start, count |-> count]
        ELSE LET start == OffsetOf(k.seekkey)
                 rd == ReadFull(Section(start, k.bytes), "EOF", n)
             IN  [data |-> rd.data, err |-> rd.err, path |-> "direct",
                  from |-> start, count |-> k.bytes]

\* load taking what one Read of the decompressor gives (no io.ReadFull): the
\* buffer is returned as soon as the stream gave any byte, the rest zero
loadReadingOnce(k, buflen) ==
    LET n == IF buflen < k.objlen THEN k.objlen ELSE buflen
    IN  IF isCompressed(k)
        THEN LET start == OffsetOf(k.seekkey) + k.keylen + 9
                 count == k.bytes - k.keylen
                 z == Inflate(Section(start, count))
             IN  IF z.open # NoErr
                 THEN [data |-> <<>>, err |-> z.open, path |-> "zlib",
                       from |-> start, count |-> count]
                 ELSE IF n > 0 /\ Len(z.data) = 0
                 THEN [data |-> <<>>, err |-> z.end, path |-> "zlib",
                       from |-> start, count |-> count]
                 ELSE [data |-> [j \in 1..n |-> IF j <= Len(z.data) THEN z.data[j] ELSE 0],
                       err |-> NoErr, path |-> "zlib", from |-> start, count |-> count]
        ELSE LET start == OffsetOf(k.seekkey) + k.keylen
                 rd == ReadFull(Section(start, k.bytes), "EOF", n)
             IN  [data |-> rd.data, err |-> rd.err, path |-> "direct",
                  from |-> start, count |-> k.bytes]

\* Key.load(buf) for a buf of buflen bytes: the bytes or the error returned;
\* path, from and count tell which section of the file was opened
load(k, buflen) ==
    LET n == IF buflen < k.objlen THEN k.objlen ELSE buflen
    IN  IF isCompressed(k)
        THEN LET start == OffsetOf(k.seekkey) + k.keylen + 9
                 count == k.bytes - k.keylen
                 z == Inflate(Section(start, count))
                 rd == ReadFull(z.data, z.end, n)
             IN  IF z.open # NoErr
                 THEN [data |-> <<>>, err |-> z.open, path |-> "zlib",
                       from |-> start, count |-> count]
                 ELSE [data |-> rd.data, err |-> rd.err, path |-> "zlib",
                       from |-> start, count |-> count]
        ELSE LET start == OffsetOf(k.seekkey) + k.keylen
                 rd == ReadFull(Section(start, k.bytes), "EOF", n)
             IN  [data |-> rd.data, err |-> rd.err, path |-> "direct",
                  from |-> start, count |-> k.bytes]

\* no payload was loaded
NoLoad ==
    [data |-> <<>>, err |-> NoErr, path |-> "none", from |-> 0, count |-> 0]

\* Key.Bytes()
Bytes(k) ==
    load(k, 0)

-----------------------------------------------------------------------------
(* The class registry (Factory) and the types registered in it, modelled   *)
(* from the specification (4.3): a class name gives a constructor or none. *)
(* A constructor is described by what its instances can do.                *)

\* "TDirectory"
TDirectory ==
    <<84, 68, 105, 114, 101, 99, 116, 111, 114, 121>>

\* "TTree"
TTree ==
    <<84, 84, 114, 101, 101>>

\* "TKey"
TKey ==
    <<84, 75, 101, 121>>

\* "TNotObject": registered, its instances are no rootio.Object
TNotObject ==
    <<84, 78, 111, 116, 79, 98, 106, 101, 99, 116>>

\* "TNoDecode": registered, its instances are no rootio.ROOTUnmarshaler
TNoDecode ==
    <<84, 78, 111, 68, 101, 99, 111, 100, 101>>

\* "TUnknown": not registered
TUnknown ==
    <<84, 85, 110, 107, 110, 111, 119, 110>>

NilCtor ==
    [class |-> <<>>, object |-> FALSE, unmarshaler |-> FALSE, setFiler |-> FALSE,
     directory |-> FALSE]

Ctor(class, object, unmarshaler, setFiler, directory) ==
    [class |-> class, object |-> object, unmarshaler |-> unmarshaler,
     setFiler |-> setFiler, directory |-> directory]

Registered ==
    {Ctor(TObjString, TRUE, TRUE, FALSE, FALSE),
     Ctor(TTree, TRUE, TRUE, TRUE, FALSE),
     Ctor(TDirectory, TRUE, TRUE, FALSE, TRUE),
     Ctor(TKey, TRUE, TRUE, FALSE, FALSE),
     Ctor(TNotObject, FALSE, FALSE, FALSE, FALSE),
     Ctor(TNoDecode, TRUE, FALSE, FALSE, FALSE)}

\* Factory.Get(name)
FactoryGet(name) ==
    IF \E c \in Registered : c.class = name
    THEN CHOOSE c \in Registered : c.class = name
    ELSE NilCtor

\* fct(): a new instance, the id-th one made
Construct(fct, id) ==
    [id |-> id, class |-> fct.class, val |-> 0, file |-> FALSE, scanned |-> FALSE]

\* the instance's own UnmarshalROOT on the payload: a Key decodes a record
\* header, every other type one 32-bit integer
SelfDecode(obj, buf) ==
    LET asKey(d) == [obj |-> [obj EXCEPT !.val = d.k.bytes], err |-> d.ret]
        asInt(d) == [obj |-> [obj EXCEPT !.val = d.v], err |-> d.r.err]
    IN  IF obj.class = TKey
        THEN asKey(UnmarshalROOT(ZeroKey, NewRBuffer(buf)))
        ELSE asInt(ReadI32(NewRBuffer(buf)))

\* tdirectory.readKeys(): the scan of the child records, which starts at
\* the offset the directory decoded and fails when that is not in the file
readKeys(dir) ==
    IF dir.val >= 0 /\ dir.val < Len(File) THEN NoErr ELSE "ErrReadKeys"

-----------------------------------------------------------------------------
(* Key: resolving the object.  st counts what has been done so far: the    *)
(* payload loads, the registry lookups, the instances constructed, the     *)
(* self-decodes and the child-record scans.                                *)

ErrNoFactory ==
    "rootio: no registered factory for class"

ErrNotObject ==
    "rootio: class does not implement rootio.Object"

\* one message for both failed assertions
ErrNotUnmarshalerAsNotObject ==
    "rootio: class does not implement rootio.Object"

ErrNotUnmarshaler ==
    "rootio: class does not implement rootio.ROOTUnmarshaler"

\* the cache never looked at
CacheIgnored(k) ==
    FALSE

\* `k.obj != nil`
Cached(k) ==
    k.obj # NilObj

\* the test of the constructor left out
FactoryUnchecked(fct) ==
    FALSE

\* `fct == nil`
NoFactory(fct) ==
    fct = NilCtor

\* the counts after one more of what
Count(st, what) ==
    [st EXCEPT ![what] = @ + 1]

\* `vv.SetFile(k.f)` and `dir.file = k.f`
SetFile(fct, obj) ==
    IF fct.setFiler \/ fct.directory THEN [obj EXCEPT !.file = TRUE] ELSE obj

\* every instance taken for a directory
EveryObjectADirectory(fct) ==
    TRUE

\* `dir, ok := obj.(*tdirectory)`
IsDirectory(fct) ==
    fct.directory

\* an error return that leaves a half-built instance in the Key
FailedKeepsInstance(k, st, e) ==
    [k |-> [k EXCEPT !.obj = [NilObj EXCEPT !.id = st.ctors + 1, !.class = k.class]],
     st |-> st, obj |-> NilObj, err |-> e, panic |-> FALSE, ld |-> NoLoad]

\* `return nil, err`: the Key is as it was
Failed(k, st, e) ==
    [k |-> k, st |-> st, obj |-> NilObj, err |-> e, panic |-> FALSE, ld |-> NoLoad]

\* Key.Object(): the key and the counts it leaves, the object and the error
\* it returns, and the load it made; panic tells that the call did not return
Object(k, st) ==
    LET fail(s, e) == Failed(k, s, e)
        \* `k.obj = obj; return obj, nil`
        bound(s, obj) == [k |-> [k EXCEPT !.obj = obj], st |-> s, obj |-> obj,
                          err |-> NoErr, panic |-> FALSE, ld |-> NoLoad]
        \* the directory's scan of its keys
        scanned(s, obj, err) ==
            IF err # NoErr THEN fail(s, err) ELSE bound(s, [obj EXCEPT !.scanned = TRUE])
        \* the instance has decoded itself
        decoded(s, fct, dec) ==
            IF dec.err # NoErr THEN fail(s, dec.err)
            ELSE IF IsDirectory(fct)
                 THEN scanned(Count(s, "scans"), SetFile(fct, dec.obj),
                              readKeys(SetFile(fct, dec.obj)))
                 ELSE bound(s, SetFile(fct, dec.obj))
        \* the constructor has been looked up
        found(s, fct, buf) ==
            IF NoFactory(fct) THEN fail(s, ErrNoFactory)
            ELSE IF fct = NilCtor  \* `fct()` on a nil constructor
                 THEN [k |-> k, st |-> s, obj |-> NilObj, err |-> NoErr, panic |-> TRUE,
                       ld |-> NoLoad]
            ELSE IF ~fct.object THEN fail(Count(s, "ctors"), ErrNotObject)
            ELSE IF ~fct.unmarshaler THEN fail(Count(s, "ctors"), ErrNotUnmarshaler)
            ELSE decoded(Count(Count(s, "ctors"), "decodes"), fct,
                         SelfDecode(Construct(fct, s.ctors + 1), buf))
        \* the payload has been loaded
        loaded(s, ld) ==
            [(IF ld.err # NoErr THEN fail(s, ld.err)
              ELSE found(Count(s, "lookups"), FactoryGet(k.class), ld.data))
             EXCEPT !.ld = ld]
    IN  IF Cached(k)
        THEN [k |-> k, st |-> st, obj |-> k.obj, err |-> NoErr, panic |-> FALSE,
              ld |-> NoLoad]
        ELSE loaded(Count(st, "loads"), Bytes(k))

\* Value() handing the error over like Object()
ValueReturnsError(k, st) ==
    Object(k, st)

\* Key.Value(): Object(), and a panic with the error when it returns one
Value(k, st) ==
    LET orPanic(r) == [r EXCEPT !.panic = r.panic \/ r.err # NoErr]
    IN  orPanic(Object(k, st))

-----------------------------------------------------------------------------
(* Decoding a stream of record headers: Key.UnmarshalROOT is called on the *)
(* reader again and again, each time on a new Key, as a scan of a          *)
(* directory's keys does.                                                  *)

\* the threads that call Object() on one Key
Threads ==
    {1, 2}

\* a thread that has not called Object(): its place in the call, what its
\* test of k.obj saw, its local obj and err (what it returns, once done),
\* the threads that had returned when it entered, and the word of k.obj it
\* writes first
ThreadIdle ==
    [pc |-> "idle", saw |-> "none", obj |-> NilObj, err |-> NoErr, after |-> {},
     first |-> "none"]

\* an interface value that is nil: no type word, no data word
NilCell ==
    [tab |-> <<>>, ptr |-> NilObj]

\* no WBuffer is in use
WIdle ==
    /\ wbuf = NewWBuffer(<<>>, NeverFails)
    /\ nops = 0
    /\ last = [op |-> "none", val |-> 0, pos |-> 0, errBefore |-> NoErr]
    /\ wlog = <<>>

\* no directory is in use
ObjIdle ==
    /\ keys = <<>>
    /\ stats = [loads |-> 0, lookups |-> 0, ctors |-> 0, decodes |-> 0, scans |-> 0]
    /\ res = [op |-> "none", key |-> 0, hit |-> FALSE, obj |-> NilObj, err |-> NoErr,
              ld |-> NoLoad]
    /\ ncalls = 0
    /\ ndecodes = <<>>
    /\ panicked = FALSE
    /\ thr = [t \in Threads |-> ThreadIdle]
    /\ cell = NilCell

InitHdr ==
    /\ WIdle
    /\ ObjIdle
    /\ \E d \in Streams : rb = NewRBuffer(d)
    /\ hk = ZeroKey
    /\ hret = "none"
    /\ hpre = NewRBuffer(<<>>)

CallUnmarshalROOT ==
    \E d \in {UnmarshalROOT(ZeroKey, rb)} :
        /\ hk' = d.k
        /\ rb' = d.r
        /\ hret' = d.ret
        /\ hpre' = rb
        /\ UNCHANGED <<wvars, ovars>>

NextHdr ==
    CallUnmarshalROOT

SpecHdr ==
    InitHdr /\ [][NextHdr]_vars

-----------------------------------------------------------------------------
(* A directory: its Keys are decoded one by one from the stream of its     *)
(* record headers, and calls are made on the Keys decoded so far.          *)

\* the header of a record of the file
KeyHeader(version, seek, bytes, objlen, class, name) ==
    EncodeKey([bytes |-> bytes, version |-> version, objlen |-> objlen,
               datetime |-> <<4660, 22136>>, keylen |-> Len(HeaderFiller), cycle |-> 1,
               seekkey |-> WidenI32(seek), seekpdir |-> WidenI32(0),
               class |-> class, name |-> name, title |-> <<>>])

\* headers whose lengths do not fit their record: an uncompressed length
\* that is negative, zero, or other than what the stream holds, and a
\* negative header length
OddHeaders ==
    {KeyHeader(1004, 8, 20, -1, TObjString, <<97>>),
     KeyHeader(1004, 0, 2, -2, TObjString, <<97>>),
     KeyHeader(1004, 62, 18, 0, TObjString, <<97>>),
     KeyHeader(1004, 8, 20, 2, TObjString, <<97>>),
     KeyHeader(1004, 8, 20, 6, TObjString, <<97>>),
     EncodeKey([bytes |-> 4, version |-> 1004, objlen |-> 8,
                datetime |-> <<4660, 22136>>, keylen |-> -4, cycle |-> 1,
                seekkey |-> WidenI32(8), seekpdir |-> WidenI32(0),
                class |-> TObjString, name |-> <<97>>, title |-> <<>>])}

\* a first Key: every class on a sound record, and every kind of record
FirstHeaders ==
    {KeyHeader(1004, 0, 8, 4, c, <<97>>) :
        c \in {TObjString, TTree, TDirectory, TKey, TNotObject, TNoDecode, TUnknown}}
      \cup {KeyHeader(1004, 8, 20, 4, TObjString, <<97>>),
            KeyHeader(1004, 8, 20, 4, TUnknown, <<97>>),
            KeyHeader(1004, 28, 8, 4, TDirectory, <<97>>),
            KeyHeader(1004, 36, 6, 2, TObjString, <<97>>),
            KeyHeader(1004, 42, 20, 4, TObjString, <<97>>),
            KeyHeader(1004, 62, 18, 4, TObjString, <<97>>),
            KeyHeader(1004, 80, 8, 4, TObjString, <<97>>),
            KeyHeader(1004, 200, 8, 4, TUnknown, <<97>>),
            KeyHeader(1004, 200, 8, 4, TNotObject, <<97>>),
            KeyHeader(1004, 36, 6, 2, TDirectory, <<97>>)}
      \cup OddHeaders

\* its sibling: a Key of a registered class on a sound record
SiblingHeaders ==
    {KeyHeader(4, 0, 8, 4, TObjString, <<98>>),
     KeyHeader(4, 8, 20, 4, TObjString, <<98>>),
     KeyHeader(4, 8, 20, 4, TDirectory, <<98>>)}

DirStreams ==
    {h1 \o h2 : h1 \in FirstHeaders, h2 \in SiblingHeaders}
      \cup {<<255, 255, 255, 255>> \o KeyHeader(4, 0, 8, 4, TObjString, <<97>>)
                \o KeyHeader(4, 8, 20, 4, TObjString, <<98>>),
            SubSeq(KeyHeader(4, 0, 8, 4, TObjString, <<97>>), 1, 20)}

InitObj ==
    /\ WIdle
    /\ ObjIdle
    /\ \E d \in DirStreams : rb = NewRBuffer(d)
    /\ hk = ZeroKey
    /\ hret = "none"
    /\ hpre = NewRBuffer(<<>>)

\* one step of the scan of the directory's keys: a new Key is decoded from
\* the stream and, when that went well, added to the directory
ReadKey ==
    /\ ~panicked
    /\ rb.err = NoErr
    /\ rb.pos < Len(rb.data)
    /\ \E d \in {UnmarshalROOT(ZeroKey, rb)} :
           /\ hk' = d.k
           /\ rb' = d.r
           /\ hret' = d.ret
           /\ hpre' = rb
           /\ keys' = IF d.ret = NoErr THEN Append(keys, d.k) ELSE keys
           /\ ndecodes' = IF d.ret = NoErr THEN Append(ndecodes, 0) ELSE ndecodes
    /\ UNCHANGED <<wvars, stats, res, ncalls, panicked, thr, cell>>

\* a call on the i-th Key that leaves the directory as r tells
Called(op, i, r) ==
    /\ ~panicked
    /\ ncalls < MaxCalls
    /\ ncalls' = ncalls + 1
    /\ keys' = [keys EXCEPT ![i] = r.k]
    /\ stats' = r.st
    /\ res' = [op |-> op, key |-> i, hit |-> keys[i].obj # NilObj, obj |-> r.obj,
               err |-> r.err, ld |-> r.ld]
    /\ ndecodes' = [ndecodes EXCEPT ![i] = @ + (r.st.decodes - stats.decodes)]
    /\ panicked' = r.panic
    /\ UNCHANGED <<wvars, hvars, thr, cell>>

CallObject ==
    \E i \in 1..Len(keys) : Called("Object", i, Object(keys[i], stats))

CallValue ==
    \E i \in 1..Len(keys) : Called("Value", i, Value(keys[i], stats))

CallBytes ==
    \E i \in 1..Len(keys) : \E ld \in {Bytes(keys[i])} :
        Called("Bytes", i, [k |-> keys[i], st |-> [stats EXCEPT !.loads = @ + 1],
                            obj |-> NilObj, err |-> ld.err, panic |-> FALSE, ld |-> ld])

NextObj ==
    \/ ReadKey
    \/ CallObject
    \/ CallValue
    \/ CallBytes

SpecObj ==
    InitObj /\ [][NextObj]_vars

\* no header stream is being decoded
HdrIdle ==
    /\ rb = NewRBuffer(<<>>)
    /\ hk = ZeroKey
    /\ hret = "none"
    /\ hpre = NewRBuffer(<<>>)

Init ==
    InitW /\ HdrIdle /\ ObjIdle

Next ==
    NextW

Spec ==
    Init /\ [][Next]_vars

-----------------------------------------------------------------------------
(* Two threads call Object() on one Key that holds no object yet.  Object() *)
(* takes no lock: its test of k.obj, the resolution on the thread's own     *)
(* instance, and the two word writes of `k.obj = obj` are the steps that    *)
(* interleave.  The Key's header, the file and the registry are only read.  *)

\* a read of k.obj: the value is nil when its type word is, and holds a nil
\* pointer when only the type word has been written
LoadCell(c) ==
    IF c.tab = <<>> THEN NilObj
    ELSE IF c.ptr = NilObj THEN [NilObj EXCEPT !.class = c.tab]
    ELSE c.ptr

\* `k.obj = obj`, the type word
StoreTab(c, obj) ==
    [c EXCEPT !.tab = obj.class]

\* a data word that is written once only
StorePtrOnce(c, obj) ==
    IF c.ptr = NilObj THEN [c EXCEPT !.ptr = obj] ELSE c

\* `k.obj = obj`, the data word
StorePtr(c, obj) ==
    [c EXCEPT !.ptr = obj]

InitRace ==
    /\ WIdle
    /\ HdrIdle
    /\ \E h \in FirstHeaders : keys = <<UnmarshalROOT(ZeroKey, NewRBuffer(h)).k>>
    /\ stats = [loads |-> 0, lookups |-> 0, ctors |-> 0, decodes |-> 0, scans |-> 0]
    /\ res = [op |-> "none", key |-> 0, hit |-> FALSE, obj |-> NilObj, err |-> NoErr,
              ld |-> NoLoad]
    /\ ncalls = 0
    /\ ndecodes = <<0>>
    /\ panicked = FALSE
    /\ thr = [t \in Threads |-> ThreadIdle]
    /\ cell = NilCell

\* `if k.obj != nil { return k.obj, nil }`
Enter(t) ==
    /\ ~panicked
    /\ thr[t].pc = "idle"
    /\ \E done \in {{u \in Threads : thr[u].pc = "done"}} :
           thr' = [thr EXCEPT ![t] =
                      IF Cached(keys[1])
                      THEN [@ EXCEPT !.pc = "done", !.saw = "full", !.obj = keys[1].obj,
                                     !.after = done]
                      ELSE [@ EXCEPT !.pc = "resolve", !.saw = "empty", !.after = done]]
    /\ UNCHANGED <<wvars, hvars, keys, stats, res, ncalls, ndecodes, panicked, cell>>

\* from k.Bytes() to the last error return: the thread found k.obj nil
Resolve(t) ==
    /\ ~panicked
    /\ thr[t].pc = "resolve"
    /\ \E r \in {Object([keys[1] EXCEPT !.obj = NilObj], stats)} :
           /\ stats' = r.st
           /\ ndecodes' = [ndecodes EXCEPT ![1] = @ + (r.st.decodes - stats.decodes)]
           /\ panicked' = r.panic
           /\ thr' = [thr EXCEPT ![t] =
                         IF r.err # NoErr \/ r.panic
                         THEN [@ EXCEPT !.pc = "done", !.err = r.err]
                         ELSE [@ EXCEPT !.pc = "store", !.obj = r.obj]]
    /\ UNCHANGED <<wvars, hvars, keys, res, ncalls, cell>>

\* `k.obj = obj`: one word of the two, whichever the build writes first
StoreFirst(t) ==
    /\ ~panicked
    /\ thr[t].pc = "store"
    /\ \E w \in {"tab", "ptr"} :
           /\ cell' = IF w = "tab" THEN StoreTab(cell, thr[t].obj)
                      ELSE StorePtr(cell, thr[t].obj)
           /\ thr' = [thr EXCEPT ![t].pc = "half", ![t].first = w]
    /\ keys' = [keys EXCEPT ![1].obj = LoadCell(cell')]
    /\ UNCHANGED <<wvars, hvars, stats, res, ncalls, ndecodes, panicked>>

\* `k.obj = obj`, the other word, and `return obj, nil`
StoreSecond(t) ==
    /\ ~panicked
    /\ thr[t].pc = "half"
    /\ cell' = IF thr[t].first = "tab" THEN StorePtr(cell, thr[t].obj)
               ELSE StoreTab(cell, thr[t].obj)
    /\ thr' = [thr EXCEPT ![t].pc = "done"]
    /\ keys' = [keys EXCEPT ![1].obj = LoadCell(cell')]
    /\ UNCHANGED <<wvars, hvars, stats, res, ncalls, ndecodes, panicked>>

NextRace ==
    \/ \E t \in Threads : Enter(t)
    \/ \E t \in Threads : Resolve(t)
    \/ \E t \in Threads : StoreFirst(t)
    \/ \E t \in Threads : StoreSecond(t)

SpecRace ==
    InitRace /\ [][NextRace]_vars

-----------------------------------------------------------------------------
(* Properties of the WBuffer.                                              *)

\* the bytes the last operation appended to the sink
Appended ==
    SubSeq(wbuf.sink.data, last.pos + 1, Len(wbuf.sink.data))

\* the last operation found the buffer error-free and left it so
CleanOp(op) ==
    last.op = op /\ last.errBefore = NoErr /\ Err(wbuf) = NoErr

\* C1: once a write to the sink has failed and Err() is non-nil, every later
\* operation makes no call to the sink, appends no byte to it, and leaves
\* Err() the same error.
C1_StickyError ==
    [][Err(wbuf) # NoErr =>
          /\ Err(wbuf') = Err(wbuf)
          /\ wbuf'.sink = wbuf.sink]_vars

\* an operation was issued on a buffer whose sink had failed part-way
C1_Witness ==
    /\ last.op = "Str"
    /\ last.errBefore = "ErrShortWrite"
    /\ nops = MaxOps

\* what the Reader decodes from bytes p, for the type the operation wrote
Decode(op, p) ==
    CASE op = "I8" -> ReadI8(NewRBuffer(p))
      [] op = "I16" -> ReadI16(NewRBuffer(p))
      [] op = "I32" -> ReadI32(NewRBuffer(p))
      [] op = "I64" -> ReadI64(NewRBuffer(p))
      [] op = "U8" -> ReadU8(NewRBuffer(p))
      [] op = "U16" -> ReadU16(NewRBuffer(p))
      [] op = "U32" -> ReadU32(NewRBuffer(p))
      [] op = "U64" -> ReadU64(NewRBuffer(p))
      [] op = "F32" -> ReadF32(NewRBuffer(p))
      [] op = "F64" -> ReadF64(NewRBuffer(p))
      [] op = "Str" -> ReadString(NewRBuffer(p))

\* C2: on an error-free buffer, the Reader decodes from the bytes a write
\* operation appended the value that was written, without error, for every
\* primitive type and for strings of 0, 1, 254, 255 and 256 bytes.
C2_RoundTrip ==
    (last.op # "none" /\ last.errBefore = NoErr /\ Err(wbuf) = NoErr) =>
        LET d == Decode(last.op, Appended)
        IN  d.r.err = NoErr /\ d.v = last.val

\* a string longer than 255 bytes was written and read back
C2_Witness ==
    /\ CleanOp("Str")
    /\ Len(last.val) > 255
    /\ ReadString(NewRBuffer(Appended)).v = last.val

\* C3: WriteString("") on an error-free buffer appends exactly two zero
\* bytes, and the Reader decodes two zero bytes to the empty string.
C3_EmptyString ==
    /\ (CleanOp("Str") /\ last.val = <<>>) => Appended = <<0, 0>>
    /\ LET d == ReadString(NewRBuffer(<<0, 0>>))
       IN  d.r.err = NoErr /\ d.v = <<>>

\* the empty string was written after another value
C3_Witness ==
    /\ CleanOp("Str")
    /\ last.val = <<>>
    /\ last.pos > 0
    /\ Len(wbuf.sink.data) = last.pos + 2

\* C4: a non-empty string of n <= 254 bytes is written as the byte n and
\* the n bytes (never a first byte of 255); one of n >= 255 bytes as the byte
\* 255, n as 4 bytes, most significant first, and the n bytes.
C4_LengthPrefix ==
    (CleanOp("Str") /\ last.val # <<>>) =>
        LET n == Len(last.val)
        IN  IF n <= 254
            THEN /\ Appended = <<n>> \o last.val
                 /\ Len(Appended) = 1 + n
                 /\ Appended[1] # 255
            ELSE /\ Appended = <<255, (n \div 2^24) % 2^8, (n \div 2^16) % 2^8,
                                 (n \div 2^8) % 2^8, n % 2^8>> \o last.val
                 /\ Len(Appended) = 5 + n

\* a string of exactly 255 bytes was written in the long form
C4_Witness ==
    /\ CleanOp("Str")
    /\ Len(last.val) = 255
    /\ Len(Appended) = 260

\* the width in bytes of the type a fixed-width operation writes
Width(op) ==
    CASE op \in {"I8", "U8"} -> 1
      [] op \in {"I16", "U16"} -> 2
      [] op \in {"I32", "U32", "F32"} -> 4
      [] op \in {"I64", "U64", "F64"} -> 8

\* the values of these types are patterns given as 16-bit limbs, those of
\* the other types are integers
InLimbs(op) ==
    op \in {"U32", "F32", "I64", "U64", "F64"}

\* byte j, counted from the most significant, of the w-byte two's-complement
\* pattern of the value v of the type op writes
ByteOf(op, v, w, j) ==
    IF ~InLimbs(op)
    THEN (v \div 2^(8 * (w - j))) % 2^8
    ELSE LET limb == v[((w - j) \div 2) + 1]
         IN  IF (w - j) % 2 = 0 THEN limb % 2^8 ELSE limb \div 2^8

\* C16: on an error-free buffer each fixed-width write appends exactly the
\* width of its type in bytes, the most significant byte first, a signed
\* value as its two's-complement pattern, whatever was written before.
C16_FixedWidth ==
    (last.op \notin {"none", "Str"} /\ last.errBefore = NoErr /\ Err(wbuf) = NoErr) =>
        /\ Len(Appended) = Width(last.op)
        /\ \A j \in 1..Width(last.op) :
               Appended[j] = ByteOf(last.op, last.val, Width(last.op), j)

\* the smallest int64 was written after another value
C16_Witness ==
    /\ CleanOp("I64")
    /\ last.val = <<0, 0, 0, 32768>>
    /\ last.pos > 2
    /\ Appended = <<128, 0, 0, 0, 0, 0, 0, 0>>

\* what the Reader decodes from the reader r, for the type operation op wrote
ReadAs(op, r) ==
    CASE op = "I8" -> ReadI8(r)
      [] op = "I16" -> ReadI16(r)
      [] op = "I32" -> ReadI32(r)
      [] op = "I64" -> ReadI64(r)
      [] op = "U8" -> ReadU8(r)
      [] op = "U16" -> ReadU16(r)
      [] op = "U32" -> ReadU32(r)
      [] op = "U64" -> ReadU64(r)
      [] op = "F32" -> ReadF32(r)
      [] op = "F64" -> ReadF64(r)
      [] op = "Str" -> ReadString(r)

\* the sink's bytes from position from on
Written(from) ==
    SubSeq(wbuf.sink.data, from + 1, Len(wbuf.sink.data))

\* the number of bytes the i-th operation appended
AppendedBy(i) ==
    (IF i < Len(wlog) THEN wlog[i + 1].pos ELSE Len(wbuf.sink.data)) - wlog[i].pos

\* reading the types of the operations i, i+1, ... back from r returns their
\* values, each read taking as many bytes as its write appended, and ends at
\* the end of the bytes
RECURSIVE InSync(_, _)
InSync(r, i) ==
    IF i > Len(wlog) THEN r.err = NoErr /\ r.pos = Len(r.data)
    ELSE LET d == ReadAs(wlog[i].op, r)
         IN  /\ d.r.err = NoErr
             /\ d.v = wlog[i].val
             /\ d.r.pos - r.pos = AppendedBy(i)
             /\ InSync(d.r, i + 1)

\* C19 as stated: whatever sequence of values is written to an error-free
\* buffer, reading the same sequence of types back from the bytes written
\* returns every value in order, each read taking the bytes its write
\* appended, and ends exactly at the end of the output.
C19_AsStated ==
    (wlog # <<>> /\ Err(wbuf) = NoErr) => InSync(NewRBuffer(Written(wlog[1].pos)), 1)


-----------------------------------------------------------------------------
(* Properties of Key.UnmarshalROOT.                                        *)

\* the 64-bit value of the w-byte signed big-endian integer at d[at+1..at+w]
SignedField(d, at, w) ==
    IF w = 8
    THEN <<Uint16(d, at + 7), Uint16(d, at + 5), Uint16(d, at + 3), Uint16(d, at + 1)>>
    ELSE LET s == IF d[at + 1] >= 2^7 THEN 2^16 - 1 ELSE 0
         IN  <<Uint16(d, at + 3), Uint16(d, at + 1), s, s>>

\* C5: given an error-free reader whose next 4-byte signed field is
\* negative, Key.UnmarshalROOT sets the class to "[GAP]", returns no error
\* and makes that one read only: the cursor is 4 bytes further and no read
\* reached past them, whatever follows in the stream, even nothing.
C5_GapDetection ==
    (/\ hret # "none"
     /\ hpre.err = NoErr
     /\ hpre.pos + 4 <= Len(hpre.data)
     /\ hpre.data[hpre.pos + 1] >= 2^7) =>
        /\ hk.class = GAP
        /\ hk.bytes < 0
        /\ hret = NoErr
        /\ rb.err = NoErr
        /\ rb.pos = hpre.pos + 4
        /\ rb.hi <= hpre.pos + 4
        /\ rb.calls = Append(hpre.calls, "I32")
        /\ [hk EXCEPT !.bytes = 0, !.class = <<>>] = ZeroKey

\* a gap was decoded whose 4 bytes are followed by 3 bytes only
C5_Witness ==
    /\ hret = NoErr
    /\ hk.class = GAP
    /\ rb.pos = 4
    /\ Len(rb.data) = 7

\* Key.UnmarshalROOT was called on an error-free reader and found no gap
NonGapDecode ==
    hret # "none" /\ hpre.err = NoErr /\ hk.bytes >= 0

\* C6: for every non-gap header, the record offset and the directory offset
\* are each read as an 8-byte signed integer if and only if the version
\* field is > 1000, and otherwise as a 4-byte signed integer widened to 64
\* bits.
C6_OffsetWidth ==
    NonGapDecode =>
        LET wide == hk.version > 1000
            kind == IF wide THEN "I64" ELSE "I32"
            w    == IF wide THEN 8 ELSE 4
            at   == hpre.pos + 18
        IN  /\ rb.calls = hpre.calls \o <<"I32", "I16", "I32", "U32", "I16", "I16",
                                          kind, kind, "Str", "Str", "Str">>
            /\ rb.err = NoErr =>
                  /\ hk.version = Signed16(Uint16(hpre.data, hpre.pos + 5))
                  /\ hk.seekkey = SignedField(hpre.data, at, w)
                  /\ hk.seekpdir = SignedField(hpre.data, at + w, w)

\* a header of version 1500 was decoded, its record offset above 2^32
C6_Witness ==
    /\ NonGapDecode
    /\ hret = NoErr
    /\ hk.version = 1500
    /\ hk.seekkey = <<4464, 1, 1, 0>>

\* the bytes a whole, error-free decode took for the two offsets
OffsetBytes ==
    (rb.pos - hpre.pos) - 18 - (3 + Len(hk.class) + Len(hk.name) + Len(hk.title))

\* the reads the decode made for the two offsets
OffsetReads ==
    SubSeq(rb.calls, Len(hpre.calls) + 7, Len(hpre.calls) + 8)

\* the header was decoded with offsets of w bits: both read as integers of
\* that width, which took w/8 + w/8 bytes when the decode went through
OffsetsOf(w) ==
    /\ OffsetReads = IF w = 64 THEN <<"I64", "I64">> ELSE <<"I32", "I32">>
    /\ hret = NoErr => OffsetBytes = 2 * (w \div 8)

\* C7 as stated: a version below 1000 gives 32-bit offsets, a version of
\* 1000 or more gives 64-bit offsets.
C7_AsStated ==
    NonGapDecode =>
        /\ hk.version < 1000 => OffsetsOf(32)
        /\ hk.version >= 1000 => OffsetsOf(64)

\* C7, amended: a version of 1000 or less (exactly 1000 included) gives
\* 32-bit offsets, 4 + 4 bytes; a version above 1000 gives 64-bit offsets,
\* 8 + 8 bytes.
C7_Threshold ==
    NonGapDecode =>
        /\ hk.version <= 1000 => OffsetsOf(32)
        /\ hk.version > 1000 => OffsetsOf(64)

\* a header of version exactly 1000 was decoded with 32-bit offsets
C7_Witness ==
    /\ NonGapDecode
    /\ hret = NoErr
    /\ hk.version = 1000
    /\ OffsetBytes = 8

-----------------------------------------------------------------------------
(* Properties of the resolution of a Key's object.                         *)

\* this step is a call of Object() on the i-th Key
ObjectCalled(i) ==
    ncalls' = ncalls + 1 /\ res'.op = "Object" /\ res'.key = i

\* C8: once Object() has succeeded on a Key, the object it returned is the
\* Key's cache, the cache never changes again, and every later Object()
\* call on that Key returns that very instance and no error, with no load,
\* no registry lookup, no construction, no self-decode and no scan.
C8_Memoization ==
    [][\A i \in 1..Len(keys) :
          /\ (ObjectCalled(i) /\ res'.err = NoErr) =>
                 (res'.obj # NilObj /\ keys'[i].obj = res'.obj)
          /\ keys[i].obj # NilObj =>
                 /\ keys'[i].obj = keys[i].obj
                 /\ ObjectCalled(i) =>
                       /\ res'.obj = keys[i].obj
                       /\ res'.err = NoErr
                       /\ stats' = stats
                       /\ keys' = keys]_vars

\* Object() was called on a Key that already held its object
C8_Witness ==
    /\ res.op = "Object"
    /\ res.hit
    /\ res.obj = keys[res.key].obj
    /\ stats.decodes = 1

\* the class of the i-th Key has no entry in the registry
Unregistered(i) ==
    FactoryGet(keys[i].class) = NilCtor

\* what Object() on Key k would return
Outcome(k, st) ==
    LET r == Object(k, st) IN <<r.obj, r.err, r.panic>>

\* C9 as stated: Object() on a Key of an unregistered class yields the
\* unknown-class error.
C9_AsStated ==
    (res.op = "Object" /\ Unregistered(res.key)) => res.err = ErrNoFactory

\* C9, amended: Object() on a Key of an unregistered class yields the
\* unknown-class error when the payload loads, and the error of the load
\* when it does not (the load comes first); either way it does not panic,
\* returns no object, leaves the Key as it was, its cache empty, and does
\* not change what Object() returns on any sibling Key.
C9_UnknownClass ==
    [][\A i \in 1..Len(keys) :
          (ObjectCalled(i) /\ Unregistered(i)) =>
              /\ ~panicked'
              /\ res'.err = IF Bytes(keys[i]).err # NoErr THEN Bytes(keys[i]).err
                            ELSE ErrNoFactory
              /\ res'.obj = NilObj
              /\ keys' = keys
              /\ keys'[i].obj = NilObj
              /\ \A j \in 1..Len(keys) :
                     j # i => Outcome(keys'[j], stats') = Outcome(keys[j], stats)]_vars

\* the first Key, of an unregistered class, was asked for its object, and
\* then its sibling was resolved
C9_Witness ==
    /\ Len(keys) = 2
    /\ Unregistered(1)
    /\ stats.lookups = 2
    /\ keys[1].obj = NilObj
    /\ res.op = "Object" /\ res.key = 2 /\ ~res.hit /\ res.err = NoErr
    /\ keys[2].obj = res.obj

\* C10 as stated: no operation on a Key reaches a panic.
C10_AsStated ==
    ~panicked

\* C10, amended: a failure inside Object, Bytes, load or UnmarshalROOT
\* (a load that fails, an unknown class, a class without a capability, a
\* failed read of the header) is returned as an error to the caller, and
\* none of them panics; Value alone panics, exactly when Object() returned
\* an error to it.
C10_ErrorsReturned ==
    /\ panicked <=> (res.op = "Value" /\ res.err # NoErr)
    /\ res.op \in {"Object", "Value"} => (res.err # NoErr <=> res.obj = NilObj)
    /\ (res.op # "none" /\ ~res.hit) =>
          LET k == keys[res.key]
              ld == Bytes(k)
              fct == FactoryGet(k.class)
          IN  /\ ld.err # NoErr => res.err = ld.err
              /\ (res.op # "Bytes" /\ ld.err = NoErr) =>
                     /\ fct = NilCtor => res.err = ErrNoFactory
                     /\ (fct # NilCtor /\ ~fct.object) => res.err = ErrNotObject
                     /\ (fct.object /\ ~fct.unmarshaler) => res.err = ErrNotUnmarshaler
    /\ hret # "none" => hret = rb.err

\* Value() was called on a Key of an unregistered class, and panicked
C10_Witness ==
    /\ panicked
    /\ res.op = "Value"
    /\ res.err = ErrNoFactory

-----------------------------------------------------------------------------
(* Properties of the loading of a Key's payload.                           *)

\* the last call loaded the payload of this Key
Loaded ==
    keys[res.key]

\* the file offset of the first byte after the header of Key k
PayloadStart(k) ==
    OffsetOf(k.seekkey) + k.keylen

\* the n bytes of the file from offset from on
FileRange(from, n) ==
    [j \in 1..n |-> File[from + j]]

\* the number of bytes the file holds in the n bytes from offset from on
Held(from, n) ==
    Cardinality({p \in 0..(Len(File) - 1) : from <= p /\ p < from + n})

\* C11: Key.load takes the decompression path if and only if
\* objlen # bytes - keylen, and the direct path if and only if
\* objlen = bytes - keylen.
C11_CompressionSignal ==
    res.ld.path # "none" =>
        /\ res.ld.path = "zlib" <=> Loaded.objlen # Loaded.bytes - Loaded.keylen
        /\ res.ld.path = "direct" <=> Loaded.objlen = Loaded.bytes - Loaded.keylen

\* the payload of a compressed record was loaded through the decompressor,
\* that of an uncompressed record of the same directory can be read directly
C11_Witness ==
    /\ Len(keys) = 2
    /\ res.op = "Bytes"
    /\ res.ld.path = "zlib"
    /\ res.ld.data = <<0, 0, 0, 16>>
    /\ keys[2].objlen = keys[2].bytes - keys[2].keylen
    /\ res.key = 1

\* C12 as stated: an uncompressed payload is read as exactly `bytes` bytes
\* from the first byte after the header, and those bytes are returned.
C12_AsStated ==
    (res.ld.path = "direct" /\ res.ld.err = NoErr) =>
        /\ res.ld.from = PayloadStart(Loaded)
        /\ Len(res.ld.data) = Loaded.bytes
        /\ res.ld.data = FileRange(res.ld.from, Loaded.bytes)

\* C12, amended: an uncompressed payload is read through a section of
\* `bytes` bytes that starts at the first byte after the header; exactly
\* objlen (= bytes - keylen) bytes from there are returned, none when objlen
\* is not positive, and an error instead when the section holds fewer.
C12_DirectRead ==
    res.ld.path = "direct" =>
        LET n == IF Loaded.objlen > 0 THEN Loaded.objlen ELSE 0
        IN  /\ res.ld.from = PayloadStart(Loaded)
            /\ res.ld.count = Loaded.bytes
            /\ res.ld.err = NoErr <=>
                   (n = 0 \/ (res.ld.from >= 0 /\ n <= Held(res.ld.from, Loaded.bytes)))
            /\ res.ld.err = NoErr =>
                   /\ Len(res.ld.data) = n
                   /\ res.ld.data = FileRange(res.ld.from, n)
            /\ res.ld.err # NoErr => res.ld.data = <<>>
            /\ res.err = res.ld.err \/ (res.op # "Bytes" /\ res.ld.err = NoErr)

\* the 4 bytes of an uncompressed payload were read from a record of 8 bytes
C12_Witness ==
    /\ res.op = "Bytes"
    /\ res.ld.path = "direct"
    /\ Loaded.bytes = 8
    /\ res.ld.from = 32
    /\ res.ld.data = <<0, 0, 39, 15>>

\* the section of a compressed record holds a stream: the two bytes that
\* open it, the length of its content, and the content
StreamOpens(from, count) ==
    Held(from, count) >= 2 /\ File[from + 1] = 120 /\ File[from + 2] = 156

\* the bytes of content the stream of that section yields
StreamHolds(from, count) ==
    IF Held(from, count) < 3 THEN 0
    ELSE IF Held(from, count) - 3 < File[from + 3] THEN Held(from, count) - 3
    ELSE File[from + 3]

\* C13 as stated: a compressed payload is read from the stream that starts
\* 9 bytes after the header, and either exactly objlen decompressed bytes
\* are returned or an error is.
C13_AsStated ==
    res.ld.path = "zlib" =>
        /\ res.ld.from = PayloadStart(Loaded) + 9
        /\ res.ld.err = NoErr => Len(res.ld.data) = Loaded.objlen

\* C13, amended: a compressed payload is read from the stream that starts
\* 9 bytes after the header; either exactly objlen decompressed bytes are
\* returned (none when objlen is not positive: the content of the stream is
\* then not read) or an error is; a stream that does not open, or that
\* yields fewer than objlen bytes, gives an error and no bytes.
C13_CompressedRead ==
    res.ld.path = "zlib" =>
        LET n == IF Loaded.objlen > 0 THEN Loaded.objlen ELSE 0
            from == res.ld.from
            count == Loaded.bytes - Loaded.keylen
        IN  /\ from = PayloadStart(Loaded) + 9
            /\ res.ld.count = count
            /\ res.ld.err = NoErr <=>
                   (from >= 0 /\ StreamOpens(from, count) /\ n <= StreamHolds(from, count))
            /\ res.ld.err = NoErr =>
                   /\ Len(res.ld.data) = n
                   /\ res.ld.data = FileRange(from + 3, n)
            /\ res.ld.err # NoErr => res.ld.data = <<>>
            /\ res.err = res.ld.err \/ (res.op # "Bytes" /\ res.ld.err = NoErr)

\* a stream that ends after 4 bytes was read for a payload of 6: an error
C13_Witness ==
    /\ res.op = "Bytes"
    /\ res.ld.path = "zlib"
    /\ Loaded.objlen = 6
    /\ StreamHolds(res.ld.from, res.ld.count) = 4
    /\ res.ld.err = "ErrUnexpectedEOF"
    /\ res.ld.data = <<>>

\* C20 as stated: for a non-gap Key, the section of the file that Key.load
\* opens lies within the payload region of the record, from seekkey + keylen
\* up to, not including, seekkey + bytes.
C20_AsStated ==
    (res.ld.path # "none" /\ Loaded.bytes >= 0 /\ res.ld.count > 0) =>
        /\ res.ld.from >= PayloadStart(Loaded)
        /\ res.ld.from + res.ld.count <= OffsetOf(Loaded.seekkey) + Loaded.bytes

-----------------------------------------------------------------------------
(* Properties of the resolution of a Key's object: decoding, capabilities, *)
(* the directory's scan, and failures.                                     *)

\* this step is a call of Object(), directly or through Value(), on the
\* i-th Key
Resolved(i) ==
    ncalls' = ncalls + 1 /\ res'.op \in {"Object", "Value"} /\ res'.key = i

\* C14 as stated: over any sequence of Object() calls on one Key, the
\* self-decode is invoked at most once in total.
C14_AsStated ==
    \A i \in 1..Len(ndecodes) : ndecodes[i] <= 1

\* C14, amended: each Object() call invokes the self-decode at most once; a
\* call that succeeds has invoked it and caches the result, and from then on
\* it is never invoked again for that Key; a call that returns an error
\* caches nothing, so the self-decode may run again (more than once in
\* total).
C14_DecodeOncePerSuccess ==
    [][\A i \in 1..Len(keys) :
          /\ ndecodes'[i] \in {ndecodes[i], ndecodes[i] + 1}
          /\ keys[i].obj # NilObj => (ndecodes'[i] = ndecodes[i] /\ ndecodes[i] >= 1)
          /\ (Resolved(i) /\ keys[i].obj = NilObj /\ res'.err = NoErr) =>
                 /\ ndecodes'[i] = ndecodes[i] + 1
                 /\ keys'[i].obj = res'.obj
                 /\ res'.obj # NilObj
          /\ (Resolved(i) /\ res'.err # NoErr) => keys'[i].obj = NilObj]_vars

\* Object() was called three times on a Key, which decoded once
C14_Witness ==
    /\ ncalls = 3
    /\ res.op = "Object"
    /\ res.key = 1
    /\ res.hit
    /\ stats.loads = 1
    /\ ndecodes[1] = 1

\* C15: when the payload has loaded and the registry has a constructor for
\* the class, Object() returns one error when the instance made is no
\* Object, and another when it is an Object that cannot decode itself; both
\* differ from the unknown-class error; in these cases and for an unknown
\* class no instance decodes itself and the Key's cache stays empty.
C15_CapabilityMismatch ==
    [][\A i \in 1..Len(keys) :
          LET fct == FactoryGet(keys[i].class)
              lacking == fct = NilCtor \/ ~fct.object \/ ~fct.unmarshaler
          IN  /\ ErrNotObject # ErrNotUnmarshaler
              /\ ErrNotObject # ErrNoFactory
              /\ ErrNotUnmarshaler # ErrNoFactory
              /\ (ObjectCalled(i) /\ res'.ld.path # "none" /\ res'.ld.err = NoErr) =>
                     /\ (fct # NilCtor /\ ~fct.object) => res'.err = ErrNotObject
                     /\ (fct # NilCtor /\ fct.object /\ ~fct.unmarshaler) =>
                            res'.err = ErrNotUnmarshaler
                     /\ (fct # NilCtor /\ lacking) => stats'.ctors = stats.ctors + 1
              /\ (ObjectCalled(i) /\ lacking) =>
                     /\ res'.err # NoErr
                     /\ res'.obj = NilObj
                     /\ stats'.decodes = stats.decodes
                     /\ ndecodes' = ndecodes
                     /\ keys' = keys
                     /\ keys[i].obj = NilObj]_vars

\* Object() was called on a Key whose class makes an Object that cannot
\* decode itself, after a call on one whose class makes no Object
C15_Witness ==
    /\ Len(keys) = 1
    /\ ncalls = 2
    /\ res.op = "Object"
    /\ res.err = ErrNotUnmarshaler
    /\ stats.ctors = 2
    /\ stats.decodes = 0
    /\ keys[1].obj = NilObj

\* C17: the scan of a directory's keys is made only inside Object(), for a
\* Key that held no object and whose instance is a directory, after the
\* instance decoded itself without error and before it is cached or
\* returned: a scan that fails leaves the cache empty, one that succeeds is
\* made on the very instance cached and returned; decoding a header makes
\* none, and neither does a call that finds the object cached.
C17_LazyScan ==
    [][/\ stats'.scans \in {stats.scans, stats.scans + 1}
       /\ ncalls' = ncalls => stats' = stats
       /\ \A i \in 1..Len(keys) :
              LET dir == FactoryGet(keys[i].class).directory
              IN  /\ (ncalls' = ncalls + 1 /\ res'.key = i
                       /\ stats'.scans = stats.scans + 1) =>
                         /\ res'.op \in {"Object", "Value"}
                         /\ keys[i].obj = NilObj
                         /\ dir
                         /\ stats'.decodes = stats.decodes + 1
                         /\ res'.err \in {NoErr, "ErrReadKeys"}
                         /\ res'.err = NoErr =>
                                (keys'[i].obj = res'.obj /\ res'.obj.scanned)
                         /\ res'.err # NoErr => keys'[i].obj = NilObj
                  /\ (Resolved(i) /\ keys[i].obj = NilObj /\ res'.err = NoErr) =>
                         (stats'.scans = stats.scans + 1 <=> dir)
                  /\ (Resolved(i) /\ keys[i].obj # NilObj) =>
                         stats'.scans = stats.scans]_vars

\* a directory was resolved, scanning its keys once, and asked for again
C17_Witness ==
    /\ res.op = "Object"
    /\ res.hit
    /\ res.obj.class = TDirectory
    /\ res.obj.scanned
    /\ stats.scans = 1
    /\ Len(keys) = 2

\* C18: whenever Object() returns an error, the Key holds no object and is
\* unchanged in every field, and the next Object() call on it runs the
\* resolution again from the load of the payload.
C18_FailureLeavesKey ==
    [][\A i \in 1..Len(keys) :
          /\ (Resolved(i) /\ res'.err # NoErr) =>
                 /\ keys' = keys
                 /\ keys'[i].obj = NilObj
                 /\ res'.obj = NilObj
                 /\ Object(keys'[i], stats').st.loads = stats'.loads + 1
          /\ (Resolved(i) /\ keys[i].obj = NilObj) =>
                 /\ stats'.loads = stats.loads + 1
                 /\ res'.ld.path # "none"]_vars

\* Object() failed twice on a Key whose instance cannot decode the payload
C18_Witness ==
    /\ ncalls = 2
    /\ res.op = "Object"
    /\ res.key = 1
    /\ res.err = "ErrUnexpectedEOF"
    /\ res.ld.err = NoErr
    /\ stats.loads = 2
    /\ stats.decodes = 2
    /\ keys[1].obj = NilObj

-----------------------------------------------------------------------------
(* Properties of concurrent first calls of Object() on one Key.            *)

\* every thread has returned from Object()
AllDone ==
    \A t \in Threads : thr[t].pc = "done"

\* thread u entered Object() when thread t had returned from it
Before(t, u) ==
    t # u /\ t \in thr[u].after

\* thread t's step writes the data word of k.obj
WritesPtr(t) ==
    \/ thr[t].pc = "store" /\ thr'[t].pc = "half" /\ thr'[t].first = "ptr"
    \/ thr[t].pc = "half" /\ thr'[t].pc = "done" /\ thr[t].first = "tab"

\* C21 as stated, the serialized calls: when one call has returned before
\* the other begins, the decode runs once and both return the same instance.
C21_AsStated ==
    \A t, u \in Threads :
        (AllDone /\ Before(t, u)) =>
            (ndecodes[1] = 1 /\ thr[t].obj = thr[u].obj)

\* C21, amended: Object() takes no lock, so a thread can enter whatever the
\* other is doing; when two threads both found the cache empty and both
\* succeeded, the load and the decode ran twice, each thread made and
\* returns its own instance, and each one's store puts its own instance
\* into the slot; when the calls are serialized and the first succeeded,
\* the decode ran once and both return the one instance the slot holds;
\* when the first failed, the slot stayed empty and the second ran the load
\* again.
C21_UnsynchronisedFirstAccess ==
    /\ [](\A t \in Threads : (thr[t].pc = "idle" /\ ~panicked) => ENABLED Enter(t))
    /\ [](\A t, u \in Threads :
            /\ (t # u /\ AllDone /\ thr[t].saw = "empty" /\ thr[u].saw = "empty"
                 /\ thr[t].err = NoErr /\ thr[u].err = NoErr) =>
                   /\ stats.loads = 2
                   /\ ndecodes[1] = 2
                   /\ thr[t].obj # NilObj
                   /\ thr[t].obj.id # thr[u].obj.id
                   /\ cell.ptr \in {thr[t].obj, thr[u].obj}
                   /\ cell.tab = keys[1].class
            /\ (AllDone /\ Before(t, u) /\ thr[t].err = NoErr) =>
                   /\ ndecodes[1] = 1
                   /\ stats.loads = 1
                   /\ thr[u].saw = "full"
                   /\ thr[u].err = NoErr
                   /\ thr[t].obj # NilObj
                   /\ thr[u].obj = thr[t].obj
                   /\ cell.ptr = thr[t].obj
            /\ (AllDone /\ Before(t, u) /\ thr[t].err # NoErr) =>
                   /\ cell = NilCell
                   /\ thr[u].saw = "empty"
                   /\ thr[u].err = thr[t].err
                   /\ stats.loads = 2)
    /\ [][\A t \in Threads : WritesPtr(t) => cell'.ptr = thr[t].obj]_vars

\* both threads found the cache empty, both decoded, and the slot was
\* assigned twice: it holds the instance of thread 1, made after thread 2's
C21_Witness ==
    /\ AllDone
    /\ thr[1].saw = "empty"
    /\ thr[2].saw = "empty"
    /\ thr[1].err = NoErr
    /\ thr[2].err = NoErr
    /\ ndecodes[1] = 2
    /\ stats.loads = 2
    /\ thr[1].obj.id = 2
    /\ thr[2].obj.id = 1
    /\ cell.ptr = thr[1].obj

=============================================================================
